---- MODULE Spec2Model ----
(***************************************************************************)
(* The plugin pipelines of alerta/utils/api.py: process_alert (pre-receive *)
(* hooks, lifecycle resolution, post-receive hooks), process_action,       *)
(* process_note, process_status and process_delete.  One pipeline          *)
(* invocation is one behaviour: Init is the state on entry, after          *)
(* plugins.routing(alert) has been resolved, and every action is one       *)
(* iteration of a plugin loop or the code that follows a loop.             *)
(***************************************************************************)
EXTENDS Integers, Sequences, FiniteSets, TLC

\* ------------------------------------------------------------------ bounds
\* Longest routed plugin chain.
MaxPlugins == 2

\* ------------------------------------------------------------ Python values
\* The values a hook may hand back: None, False, an Alert, or a tuple whose
\* first item is an Alert and whose other items are auxiliary fields.
NoneVal == [t |-> "None"]
FalseVal == [t |-> "False"]
TrueVal == [t |-> "True"]
\* An Alert, as far as the pipelines read it: the suppressed flag, the tags
\* and the attributes.  Tags and attributes are opaque data.
TagSets == {"t1", "t2"}
AttributeMaps == {"a1", "a2"}
Alerts == [t : {"Alert"}, is_suppressed : BOOLEAN, tags : TagSets, attributes : AttributeMaps]
\* Auxiliary fields (action, text, timeout, status) are opaque data.
Vals == {"v1", "v2"}
Rests(len) ==
    CASE len = 1 -> {<<>>}
      [] len = 2 -> {<<x>> : x \in Vals}
      [] len = 3 -> Vals \X Vals
      [] len = 4 -> Vals \X Vals \X Vals
EmptyTuple == [t |-> "tuple", len |-> 0]
\* The tuples of at most max items.
Tuples(max) ==
    IF max = 0 THEN {EmptyTuple}
    ELSE {EmptyTuple} \cup UNION {{[t |-> "tuple", len |-> l, first |-> a, rest |-> r] : a \in Alerts, r \in Rests(l)} : l \in 1..max}

\* isinstance(v, Alert) and isinstance(v, tuple)
IsAlert(v) == v.t = "Alert"
IsTuple(v) == v.t = "tuple"
\* Python truth value: None, False and the empty tuple are falsy.
IsNotNone(v) == v.t /= "None"
Truthy(v) == v.t = "Alert" \/ v.t = "True" \/ (v.t = "tuple" /\ v.len > 0)
\* `x and y`: y is evaluated only when x is truthy.
Evaluates(x) == Truthy(x)
PyOr(x, y) == IF Evaluates(x) THEN x ELSE y
PyAnd(x, y) == IF Evaluates(x) THEN y ELSE x

\* -------------------------------------------------------------- exceptions
\* The domain exceptions imported from alerta.exceptions; AlertaException is
\* their common base class.
DomainExceptions == {"RejectException", "HeartbeatReceived", "BlackoutPeriod", "RateLimit", "ForwardingLoop", "InvalidAction", "AlertaException"}
\* What a hook may raise: a domain exception, or a builtin exception, of
\* which ValueError stands for any that no except clause names.
HookExceptions == DomainExceptions \cup {"NotImplementedError", "TypeError", "ValueError"}

\* issubclass(e, c) for the exception classes above; all derive from Exception.
IsSubclass(e, c) == e = c \/ c = "Exception" \/ (c = "AlertaException" /\ e \in DomainExceptions)

\* The except clauses of each hook call, in source order, and what each does.
ExceptClauses(stage) ==
    CASE stage = "pre_receive" ->
           << [classes |-> {"TypeError"}, do |-> "retry"],
              [classes |-> {"RejectException", "HeartbeatReceived", "BlackoutPeriod", "RateLimit", "ForwardingLoop", "AlertaException"}, do |-> "reraise"],
              [classes |-> {"Exception"}, do |-> "fault"] >>
      [] stage = "post_receive" ->
           << [classes |-> {"TypeError"}, do |-> "retry"],
              [classes |-> {"AlertaException"}, do |-> "reraise"],
              [classes |-> {"Exception"}, do |-> "fault"] >>
      [] stage = "take_action" ->
           << [classes |-> {"NotImplementedError"}, do |-> "skip"],
              [classes |-> {"RejectException", "ForwardingLoop", "InvalidAction", "AlertaException"}, do |-> "reraise"],
              [classes |-> {"Exception"}, do |-> "fault"] >>
      [] stage = "take_note" ->
           << [classes |-> {"NotImplementedError"}, do |-> "skip"],
              [classes |-> {"RejectException", "ForwardingLoop", "AlertaException"}, do |-> "reraise"],
              [classes |-> {"Exception"}, do |-> "fault"] >>
      [] stage = "status_change" ->
           << [classes |-> {"TypeError"}, do |-> "retry"],
              [classes |-> {"RejectException", "AlertaException"}, do |-> "reraise"],
              [classes |-> {"Exception"}, do |-> "fault"] >>
      [] stage = "delete" ->
           << [classes |-> {"NotImplementedError"}, do |-> "skip"],
              [classes |-> {"RejectException", "AlertaException"}, do |-> "reraise"],
              [classes |-> {"Exception"}, do |-> "fault"] >>

Catches(clause, e) == \E c \in clause.classes : IsSubclass(e, c)

\* A try statement runs the first clause that matches the raised exception.
ClassifyExceptionFirst(stage, e) == "fault"
ClassifyNoSkip(stage, e) ==
    LET cl == ExceptClauses(stage)
        k == CHOOSE j \in 1..Len(cl) : Catches(cl[j], e) /\ \A h \in 1..(j - 1) : ~Catches(cl[h], e)
    IN IF cl[k].do = "skip" THEN "fault" ELSE cl[k].do
Classify(stage, e) ==
    LET cl == ExceptClauses(stage)
        k == CHOOSE j \in 1..Len(cl) : Catches(cl[j], e) /\ \A h \in 1..(j - 1) : ~Catches(cl[h], e)
    IN cl[k].do

\* An exception as the caller of the pipeline sees it.  One raised by a hook
\* or a model operation and not wrapped keeps origin "raised"; one built by
\* the pipeline names the stage, and the plugin and cause of its message.
NoExc == [type |-> "none", origin |-> "none", stage |-> "none", plugin |-> 0, cause |-> "none"]
HookExc(e, stage, k) == [type |-> e, origin |-> "raised", stage |-> stage, plugin |-> k, cause |-> "none"]
RaisedAsIs(type, stage, k, e) == [type |-> e, origin |-> "raised", stage |-> stage, plugin |-> k, cause |-> "none"]
Wrapped(type, stage, k, e) == [type |-> type, origin |-> "pipeline", stage |-> stage, plugin |-> k, cause |-> e]

\* The name of the stage in the message of a wrapped plugin fault and the
\* class of the error raised under PLUGINS_RAISE_ON_ERROR.
FaultClass(stage) == IF stage = "pre_receive" THEN "RuntimeError" ELSE "ApiError"

\* ------------------------------------------------------------------- state
VARIABLES
    kind,               \* which entry point was called
    raise_on_error,     \* current_app.config['PLUGINS_RAISE_ON_ERROR']
    pc,                 \* the loop the invocation is in, "returned" or "raised"
    n,                  \* len(wanted_plugins) of the current routing decision
    i,                  \* position in wanted_plugins of the next plugin
    alert, action, text, timeout, status,   \* the running state
    alert_was_updated,  \* the mutated flag
    skip_plugins,       \* process_alert: the pre-receive loop was broken off
    delete,             \* process_delete: the running verdict
    raised,             \* the exception the caller receives, NoExc if none
    retval,             \* process_delete: the value returned
    input,              \* history: the alert the pipeline was called with
    invoked,            \* history: the hooks called so far, as [stage, plugin]
    last,               \* history: the last hook call and what came of it
    ops,                \* history: the alert-model operations called so far
    last_produced,      \* history: running state after the last non-empty result
    verdicts,           \* history: the verdicts the delete hooks returned
    seen                \* history: whether a hook returned a result, and one that counts

running == <<alert, action, text, timeout, status, alert_was_updated>>
control == <<kind, raise_on_error, pc, n, i, skip_plugins, delete, raised, retval>>
history == <<input, invoked, last, ops, last_produced, verdicts, seen>>
vars == <<running, control, history>>

Kinds == {"receive", "action", "note", "status", "delete"}
FirstStage(k) ==
    CASE k = "receive" -> "pre_receive"
      [] k = "action" -> "take_action"
      [] k = "note" -> "take_note"
      [] k = "status" -> "status_change"
      [] k = "delete" -> "delete"

NoCall == [stage |-> "none", plugin |-> 0, exc |-> "none", ret |-> NoneVal, retried |-> FALSE, body_runs |-> 0]
Produced(stage, k, st) == [stage |-> stage, plugin |-> k, alert |-> st.alert, action |-> st.action, text |-> st.text, timeout |-> st.timeout, status |-> st.status]

\* The running state as one record, and its assignment to the variables.
State == [alert |-> alert, action |-> action, text |-> text, timeout |-> timeout, status |-> status, alert_was_updated |-> alert_was_updated]
SetState(st) ==
    /\ alert' = st.alert
    /\ action' = st.action
    /\ text' = st.text
    /\ timeout' = st.timeout
    /\ status' = st.status
    /\ alert_was_updated' = st.alert_was_updated

\* Entry of a pipeline: plugins.routing(alert) has returned n plugins, named
\* 1..n in iteration order; timeout defaults to None.
Init ==
    /\ kind \in Kinds
    /\ raise_on_error \in BOOLEAN
    /\ pc = FirstStage(kind)
    /\ n \in 0..MaxPlugins
    /\ i = 1
    /\ alert \in {a \in Alerts : a.tags = "t1" /\ a.attributes = "a1"}
    /\ action = "v1"
    /\ text = "v1"
    /\ timeout = "None"
    /\ status = "v1"
    /\ alert_was_updated = FALSE
    /\ skip_plugins = FALSE
    /\ delete = TrueVal
    /\ raised = NoExc
    /\ retval = NoneVal
    /\ input = alert
    /\ invoked = {}
    /\ seen = [any |-> FALSE, accepted |-> FALSE]
    /\ last = NoCall
    /\ ops = <<>>
    /\ last_produced = Produced("input", 0, [alert |-> alert, action |-> "v1", text |-> "v1", timeout |-> "None", status |-> "v1"])
    /\ verdicts = <<>>

\* ------------------------------------------------------------ Hook Invoker
\* What one call of a hook does: it returns a value or raises.
\* Tuples are drawn up to the longest the stage unpacks and, in the note and
\* status pipelines, one item more; where the stage unpacks none, True stands
\* for a truthy value that is no Alert.
MaxTuple(stage) ==
    CASE stage \in {"pre_receive", "post_receive"} -> 0
      [] stage = "take_note" -> 3
      [] stage \in {"take_action", "status_change"} -> 4
Results(stage) ==
    IF stage = "delete" THEN {TrueVal, FalseVal, NoneVal}
    ELSE {NoneVal, FalseVal} \cup Alerts \cup Tuples(MaxTuple(stage))
         \cup (IF MaxTuple(stage) = 0 THEN {TrueVal} ELSE {})
Outcomes(stage) ==
    {[exc |-> "none", ret |-> r] : r \in Results(stage)} \cup {[exc |-> e, ret |-> NoneVal] : e \in HookExceptions}

\* The call of a hook as the loop body makes it.  Where the try statement has
\* an `except TypeError` clause the hook is called again without config, from
\* inside the handler: whatever that second call raises leaves the try
\* statement unhandled.  A TypeError comes either from a plugin whose hook
\* does not take config (its body has not run) or from the hook's body.
Calls(stage) ==
    LET first == Outcomes(stage)
        retry == {c \in first : c.exc /= "none" /\ Classify(stage, c.exc) = "retry"}
    IN {[exc |-> c.exc, ret |-> c.ret, retried |-> FALSE, body_runs |-> 1] : c \in first \ retry}
       \cup {[exc |-> f.exc, ret |-> f.ret, retried |-> TRUE, body_runs |-> b] : f \in (IF retry = {} THEN {} ELSE first), b \in 1..2}

\* What the try statement around a hook call leaves behind: the hook's
\* result, an exception that ends the pipeline, or nothing (updated = None).
HandleSwallow(stage, k, c) ==
    IF c.exc = "none" THEN [do |-> "result", ret |-> c.ret, exc |-> NoExc]
    ELSE IF raise_on_error
    THEN [do |-> "raise", ret |-> NoneVal, exc |-> HookExc(c.exc, stage, k)]
    ELSE [do |-> "nothing", ret |-> NoneVal, exc |-> NoExc]
Handle(stage, k, c) ==
    IF c.exc = "none" THEN [do |-> "result", ret |-> c.ret, exc |-> NoExc]
    ELSE IF c.retried THEN [do |-> "raise", ret |-> NoneVal, exc |-> HookExc(c.exc, stage, k)]
    ELSE CASE Classify(stage, c.exc) = "reraise" -> [do |-> "raise", ret |-> NoneVal, exc |-> HookExc(c.exc, stage, k)]
           [] Classify(stage, c.exc) = "skip" -> [do |-> "nothing", ret |-> NoneVal, exc |-> NoExc]
           [] Classify(stage, c.exc) = "fault" ->
                IF raise_on_error
                THEN [do |-> "raise", ret |-> NoneVal, exc |-> Wrapped(FaultClass(stage), stage, k, c.exc)]
                ELSE [do |-> "nothing", ret |-> NoneVal, exc |-> NoExc]

LastCall(stage, k, c) == [stage |-> stage, plugin |-> k, exc |-> c.exc, ret |-> c.ret, retried |-> c.retried, body_runs |-> c.body_runs]

\* The results that set the mutated flag: lines 85, 117-119, 152-154, 185.
Accepted(stage, r) ==
    CASE stage \in {"post_receive", "status_change"} -> Truthy(r)
      [] stage = "take_action" -> IsAlert(r) \/ IsTuple(r)
      [] stage = "take_note" -> IsAlert(r) \/ (IsTuple(r) /\ r.len = 2)
      [] OTHER -> FALSE

\* The results that are assigned to the running state: any result and then a
\* truthy one (lines 42-51), a truthy one (lines 85-86, 185-190), a bare alert
\* or a tuple of 4 or 3 (lines 117-123), a bare alert or a tuple of 2 (lines
\* 152-155).
Assigned(stage, r) ==
    CASE stage \in {"pre_receive", "post_receive", "status_change"} -> Truthy(r)
      [] stage = "take_action" -> IsAlert(r) \/ (IsTuple(r) /\ r.len \in {3, 4})
      [] stage = "take_note" -> IsAlert(r) \/ (IsTuple(r) /\ r.len = 2)
      [] OTHER -> FALSE

\* The history of a hook call c of plugin i, handled as h, that leaves the
\* running state st.
HookHistory(stage, c, h, st) ==
    /\ invoked' = invoked \cup {[stage |-> stage, plugin |-> i]}
    /\ last' = LastCall(stage, i, c)
    /\ seen' = IF h.do = "result"
               THEN [any |-> seen.any \/ h.ret /= NoneVal, accepted |-> seen.accepted \/ Accepted(stage, h.ret)]
               ELSE seen
    /\ last_produced' = IF h.do = "result" /\ Assigned(stage, h.ret) THEN Produced(stage, i, st) ELSE last_produced

\* The pipeline ends by raising e.
Raise(e) ==
    /\ pc' = "raised"
    /\ raised' = e

\* ------------------------------------------------------- alert model calls
\* alert.update_tags(tags) and alert.update_attributes(attributes) as the
\* pipeline sees them: each returns or raises.
ModelExceptions == {"ValueError", "RejectException"}
TagsVal(v) == [t |-> "tags", v |-> v]
AttrVal(v) == [t |-> "attributes", v |-> v]
ModelExc(e) == [t |-> "raise", v |-> e]
Op(name, arg, ret) == [op |-> name, arg |-> arg, ret |-> ret]

\* `if alert_was_updated:` followed by the two resync calls and the return.
\* assign says whether the value of update_attributes is stored in the alert.
ResyncAndReturn(assign) ==
    IF ~alert_was_updated
    THEN /\ pc' = "returned"
         /\ UNCHANGED <<alert, ops, raised>>
    ELSE IF ~IsAlert(alert)
    THEN /\ Raise(HookExc("AttributeError", "resync", 0))
         /\ UNCHANGED <<alert, ops>>
    ELSE \/ \E e \in ModelExceptions :
              /\ ops' = Append(ops, Op("update_tags", TagsVal(alert.tags), ModelExc(e)))
              /\ Raise(HookExc(e, "resync", 0))
              /\ UNCHANGED alert
         \/ \E e \in ModelExceptions :
              /\ ops' = ops \o << Op("update_tags", TagsVal(alert.tags), NoneVal),
                                  Op("update_attributes", AttrVal(alert.attributes), ModelExc(e)) >>
              /\ Raise(HookExc(e, "resync", 0))
              /\ UNCHANGED alert
         \/ \E a \in AttributeMaps :
              /\ ops' = ops \o << Op("update_tags", TagsVal(alert.tags), NoneVal),
                                  Op("update_attributes", AttrVal(alert.attributes), AttrVal(a)) >>
              /\ alert' = IF assign THEN [alert EXCEPT !.attributes = a] ELSE alert
              /\ pc' = "returned"
              /\ UNCHANGED raised

\* --------------------------------------------------------- process_action
\* Lines 117-124: fold what take_action returned into the running state.
NormalizeActionNotSticky(st, updated) ==
    LET u == IF IsAlert(updated)
             THEN [t |-> "tuple", len |-> 4, first |-> updated, rest |-> <<st.action, st.text, st.timeout>>]
             ELSE updated
    IN IF ~IsTuple(u) THEN [st EXCEPT !.alert_was_updated = FALSE]
       ELSE IF u.len = 4
       THEN [st EXCEPT !.alert = u.first, !.action = u.rest[1], !.text = u.rest[2], !.timeout = u.rest[3], !.alert_was_updated = TRUE]
       ELSE IF u.len = 3
       THEN [st EXCEPT !.alert = u.first, !.action = u.rest[1], !.text = u.rest[2], !.alert_was_updated = TRUE]
       ELSE [st EXCEPT !.alert_was_updated = TRUE]
NormalizeActionDropsTimeout(st, updated) ==
    LET u == IF IsAlert(updated)
             THEN [t |-> "tuple", len |-> 4, first |-> updated, rest |-> <<st.action, st.text, st.timeout>>]
             ELSE updated
    IN IF ~IsTuple(u) THEN st
       ELSE IF u.len = 4
       THEN [st EXCEPT !.alert = u.first, !.action = u.rest[1], !.text = u.rest[2], !.timeout = u.rest[3], !.alert_was_updated = TRUE]
       ELSE IF u.len = 3
       THEN [st EXCEPT !.alert = u.first, !.action = u.rest[1], !.text = u.rest[2], !.timeout = "None", !.alert_was_updated = TRUE]
       ELSE [st EXCEPT !.alert_was_updated = TRUE]
NormalizeAction(st, updated) ==
    LET u == IF IsAlert(updated)
             THEN [t |-> "tuple", len |-> 4, first |-> updated, rest |-> <<st.action, st.text, st.timeout>>]
             ELSE updated
    IN IF ~IsTuple(u) THEN st
       ELSE IF u.len = 4
       THEN [st EXCEPT !.alert = u.first, !.action = u.rest[1], !.text = u.rest[2], !.timeout = u.rest[3], !.alert_was_updated = TRUE]
       ELSE IF u.len = 3
       THEN [st EXCEPT !.alert = u.first, !.action = u.rest[1], !.text = u.rest[2], !.alert_was_updated = TRUE]
       ELSE [st EXCEPT !.alert_was_updated = TRUE]

\* One iteration of the loop of process_action.
TakeActionNoBreak ==
    /\ pc = "take_action"
    /\ i <= n
    /\ \E c \in Calls("take_action") :
         LET h == Handle("take_action", i, c)
             st == IF h.do = "result" THEN NormalizeAction(State, h.ret) ELSE State
         IN /\ HookHistory("take_action", c, h, st)
            /\ IF h.do = "raise"
               THEN /\ Raise(h.exc)
                    /\ UNCHANGED <<running, i>>
               ELSE /\ SetState(st)
                    /\ i' = i + 1
                    /\ UNCHANGED <<pc, raised>>
    /\ UNCHANGED <<kind, raise_on_error, n, skip_plugins, delete, retval, input, ops, verdicts>>
TakeAction ==
    /\ pc = "take_action"
    /\ i <= n
    /\ ~alert.is_suppressed
    /\ \E c \in Calls("take_action") :
         LET h == Handle("take_action", i, c)
             st == IF h.do = "result" THEN NormalizeAction(State, h.ret) ELSE State
         IN /\ HookHistory("take_action", c, h, st)
            /\ IF h.do = "raise"
               THEN /\ Raise(h.exc)
                    /\ UNCHANGED <<running, i>>
               ELSE /\ SetState(st)
                    /\ i' = i + 1
                    /\ UNCHANGED <<pc, raised>>
    /\ UNCHANGED <<kind, raise_on_error, n, skip_plugins, delete, retval, input, ops, verdicts>>

\* The code after the loop of process_action, reached at the end of the
\* chain or by the break on a suppressed alert.
ReturnAction ==
    /\ pc = "take_action"
    /\ (i > n \/ alert.is_suppressed)
    /\ ResyncAndReturn(TRUE)
    /\ UNCHANGED <<action, text, timeout, status, alert_was_updated>>
    /\ UNCHANGED <<kind, raise_on_error, n, i, skip_plugins, delete, retval>>
    /\ last' = NoCall
    /\ UNCHANGED <<input, invoked, last_produced, verdicts, seen>>

\* ----------------------------------------------------------- process_note
\* Lines 152-156: fold what take_note returned into the running state.
NormalizeNote(st, updated) ==
    LET u == IF IsAlert(updated)
             THEN [t |-> "tuple", len |-> 2, first |-> updated, rest |-> <<st.text>>]
             ELSE updated
    IN IF IsTuple(u) /\ u.len = 2
       THEN [st EXCEPT !.alert = u.first, !.text = u.rest[1], !.alert_was_updated = TRUE]
       ELSE st

\* One iteration of the loop of process_note.
TakeNoteBreaksIfSuppressed ==
    /\ pc = "take_note"
    /\ i <= n
    /\ IF alert.is_suppressed
       THEN /\ i' = n + 1
            /\ last' = NoCall
            /\ UNCHANGED <<running, pc, raised, invoked, last_produced, seen>>
       ELSE \E c \in Calls("take_note") :
         LET h == Handle("take_note", i, c)
             st == IF h.do = "result" THEN NormalizeNote(State, h.ret) ELSE State
         IN /\ HookHistory("take_note", c, h, st)
            /\ IF h.do = "raise"
               THEN /\ Raise(h.exc)
                    /\ UNCHANGED <<running, i>>
               ELSE /\ SetState(st)
                    /\ i' = i + 1
                    /\ UNCHANGED <<pc, raised>>
    /\ UNCHANGED <<kind, raise_on_error, n, skip_plugins, delete, retval, input, ops, verdicts>>
TakeNote ==
    /\ pc = "take_note"
    /\ i <= n
    /\ \E c \in Calls("take_note") :
         LET h == Handle("take_note", i, c)
             st == IF h.do = "result" THEN NormalizeNote(State, h.ret) ELSE State
         IN /\ HookHistory("take_note", c, h, st)
            /\ IF h.do = "raise"
               THEN /\ Raise(h.exc)
                    /\ UNCHANGED <<running, i>>
               ELSE /\ SetState(st)
                    /\ i' = i + 1
                    /\ UNCHANGED <<pc, raised>>
    /\ UNCHANGED <<kind, raise_on_error, n, skip_plugins, delete, retval, input, ops, verdicts>>

\* The code after the loop of process_note: the value of update_attributes
\* is not stored.
ReturnNote ==
    /\ pc = "take_note"
    /\ i > n
    /\ ResyncAndReturn(FALSE)
    /\ UNCHANGED <<action, text, timeout, status, alert_was_updated>>
    /\ UNCHANGED <<kind, raise_on_error, n, i, skip_plugins, delete, retval>>
    /\ last' = NoCall
    /\ UNCHANGED <<input, invoked, last_produced, verdicts, seen>>

\* --------------------------------------------------------- process_status
\* Lines 185-190: a truthy result that unpacks into three items replaces
\* alert, status and text; any other truthy result becomes the alert.
NormalizeStatusTakesFirst(st, updated) ==
    IF ~Truthy(updated) THEN st
    ELSE IF IsTuple(updated) /\ updated.len = 3
    THEN [st EXCEPT !.alert = updated.first, !.status = updated.rest[1], !.text = updated.rest[2], !.alert_was_updated = TRUE]
    ELSE IF IsTuple(updated)
    THEN [st EXCEPT !.alert = updated.first, !.alert_was_updated = TRUE]
    ELSE [st EXCEPT !.alert = updated, !.alert_was_updated = TRUE]
NormalizeStatus(st, updated) ==
    IF ~Truthy(updated) THEN st
    ELSE IF IsTuple(updated) /\ updated.len = 3
    THEN [st EXCEPT !.alert = updated.first, !.status = updated.rest[1], !.text = updated.rest[2], !.alert_was_updated = TRUE]
    ELSE [st EXCEPT !.alert = updated, !.alert_was_updated = TRUE]

\* One iteration of the loop of process_status.  Reading is_suppressed of a
\* running alert that is no Alert raises AttributeError outside any try.
StatusChange ==
    /\ pc = "status_change"
    /\ i <= n
    /\ IsAlert(alert) => ~alert.is_suppressed
    /\ IF ~IsAlert(alert)
       THEN /\ Raise(HookExc("AttributeError", "status_change", 0))
            /\ last' = NoCall
            /\ UNCHANGED <<running, i, invoked, last_produced, seen>>
       ELSE \E c \in Calls("status_change") :
         LET h == Handle("status_change", i, c)
             st == IF h.do = "result" THEN NormalizeStatus(State, h.ret) ELSE State
         IN /\ HookHistory("status_change", c, h, st)
            /\ IF h.do = "raise"
               THEN /\ Raise(h.exc)
                    /\ UNCHANGED <<running, i>>
               ELSE /\ SetState(st)
                    /\ i' = i + 1
                    /\ UNCHANGED <<pc, raised>>
    /\ UNCHANGED <<kind, raise_on_error, n, skip_plugins, delete, retval, input, ops, verdicts>>

\* The code after the loop of process_status.
ReturnStatus ==
    /\ pc = "status_change"
    /\ (i > n \/ (IsAlert(alert) /\ alert.is_suppressed))
    /\ ResyncAndReturn(TRUE)
    /\ UNCHANGED <<action, text, timeout, status, alert_was_updated>>
    /\ UNCHANGED <<kind, raise_on_error, n, i, skip_plugins, delete, retval>>
    /\ last' = NoCall
    /\ UNCHANGED <<input, invoked, last_produced, verdicts, seen>>

\* --------------------------------------------------------- process_delete
\* One iteration of the loop of process_delete:
\* `delete = delete and plugin.delete(alert, config=wanted_config)`.
\* The hook is the right operand of `and`.
Delete ==
    /\ pc = "delete"
    /\ i <= n
    /\ IF ~Evaluates(delete)
       THEN /\ i' = i + 1
            /\ last' = NoCall
            /\ UNCHANGED <<delete, pc, raised, invoked, verdicts>>
       ELSE \E c \in Calls("delete") :
         LET h == Handle("delete", i, c)
         IN /\ invoked' = invoked \cup {[stage |-> "delete", plugin |-> i]}
            /\ last' = LastCall("delete", i, c)
            /\ IF h.do = "raise"
               THEN /\ Raise(h.exc)
                    /\ UNCHANGED <<delete, i, verdicts>>
               ELSE /\ delete' = IF h.do = "result" THEN PyAnd(delete, h.ret) ELSE delete
                    /\ verdicts' = IF h.do = "result" THEN Append(verdicts, [plugin |-> i, verdict |-> h.ret]) ELSE verdicts
                    /\ i' = i + 1
                    /\ UNCHANGED <<pc, raised>>
    /\ UNCHANGED <<running, kind, raise_on_error, n, skip_plugins, retval, input, ops, last_produced, seen>>

\* `return delete and alert.delete()`; alert.delete() returns a bool or raises.
ReturnDelete ==
    /\ pc = "delete"
    /\ i > n
    /\ IF ~Evaluates(delete)
       THEN /\ retval' = delete
            /\ pc' = "returned"
            /\ UNCHANGED <<ops, raised>>
       ELSE \/ \E r \in {TrueVal, FalseVal} :
                 /\ ops' = Append(ops, Op("delete", NoneVal, r))
                 /\ retval' = PyAnd(delete, r)
                 /\ pc' = "returned"
                 /\ UNCHANGED raised
            \/ \E e \in ModelExceptions :
                 /\ ops' = Append(ops, Op("delete", NoneVal, ModelExc(e)))
                 /\ Raise(HookExc(e, "delete", 0))
                 /\ UNCHANGED retval
    /\ UNCHANGED <<running, kind, raise_on_error, n, i, skip_plugins, delete>>
    /\ last' = NoCall
    /\ UNCHANGED <<input, invoked, last_produced, verdicts, seen>>

\* ---------------------------------------------------------- process_alert
\* One iteration of the pre-receive loop: the break on a suppressed alert,
\* or the hook call, whose result becomes the alert, and the check that
\* the alert is not empty.
PreReceive ==
    /\ pc = "pre_receive"
    /\ i <= n
    /\ IF ~IsAlert(alert)
       THEN /\ Raise(HookExc("AttributeError", "pre_receive", 0))
            /\ last' = NoCall
            /\ UNCHANGED <<running, i, skip_plugins, invoked, last_produced, seen>>
       ELSE IF alert.is_suppressed
       THEN /\ skip_plugins' = TRUE
            /\ pc' = "lifecycle"
            /\ last' = NoCall
            /\ UNCHANGED <<running, i, raised, invoked, last_produced, seen>>
       ELSE \E c \in Calls("pre_receive") :
         LET h == Handle("pre_receive", i, c)
             st == IF h.do = "result" THEN [State EXCEPT !.alert = h.ret] ELSE State
         IN /\ HookHistory("pre_receive", c, h, st)
            /\ UNCHANGED skip_plugins
            /\ IF h.do = "raise"
               THEN /\ Raise(h.exc)
                    /\ UNCHANGED <<running, i>>
               ELSE IF ~Truthy(st.alert)
               THEN /\ Raise(Wrapped("SyntaxError", "pre_receive", i, "none"))
                    /\ SetState(st)
                    /\ UNCHANGED i
               ELSE /\ SetState(st)
                    /\ i' = i + 1
                    /\ UNCHANGED <<pc, raised>>
    /\ UNCHANGED <<kind, raise_on_error, n, delete, retval, input, ops, verdicts>>

\* What the alert-model queries and operations of the lifecycle return.
Match == [t |-> "match"]
Stored == [t |-> "stored"]

\* The runs of lines 55-63: the model operations called, in order, with what
\* each returned or raised.  The run ends with the first call that raises.
LifecycleRunsNoElse ==
    LET dup(r) == Op("is_duplicate", NoneVal, r)
        cor(r) == Op("is_correlated", NoneVal, r)
    IN {<<dup(Match), Op("deduplicate", Match, Stored), cor(NoneVal), Op("create", NoneVal, Stored)>>,
        <<dup(NoneVal), cor(Match), Op("update", Match, Stored)>>,
        <<dup(NoneVal), cor(NoneVal), Op("create", NoneVal, Stored)>>}
LifecycleRuns ==
    LET dup(r) == Op("is_duplicate", NoneVal, r)
        cor(r) == Op("is_correlated", NoneVal, r)
        ends == {Stored} \cup {ModelExc(e) : e \in ModelExceptions}
    IN {<<dup(ModelExc(e))>> : e \in ModelExceptions}
       \cup {<<dup(Match), Op("deduplicate", Match, r)>> : r \in ends}
       \cup {<<dup(NoneVal), cor(ModelExc(e))>> : e \in ModelExceptions}
       \cup {<<dup(NoneVal), cor(Match), Op("update", Match, r)>> : r \in ends}
       \cup {<<dup(NoneVal), cor(NoneVal), Op("create", NoneVal, r)>> : r \in ends}

\* Lines 54-69: lifecycle resolution, any exception of which is raised as
\* ApiError(str(e)), then the second routing decision, on the resolved alert.
\* deduplicate, update and create return the alert as the store holds it.
ResolveLifecycle ==
    /\ pc = "lifecycle" \/ (pc = "pre_receive" /\ i > n)
    /\ IF ~IsAlert(alert)
       THEN /\ Raise(Wrapped("ApiError", "lifecycle", 0, "AttributeError"))
            /\ UNCHANGED <<running, n, i, ops, last_produced>>
       ELSE \E run \in LifecycleRuns :
         LET end == run[Len(run)].ret
         IN /\ ops' = ops \o run
            /\ IF end.t = "raise"
               THEN /\ Raise(Wrapped("ApiError", "lifecycle", 0, end.v))
                    /\ UNCHANGED <<running, n, i, last_produced>>
               ELSE /\ alert' \in Alerts
                    /\ alert_was_updated' = FALSE
                    /\ n' \in 0..MaxPlugins
                    /\ i' = 1
                    /\ pc' = "post_receive"
                    /\ last_produced' = IF alert' = alert THEN last_produced ELSE Produced("lifecycle", 0, [State EXCEPT !.alert = alert'])
                    /\ UNCHANGED <<action, text, timeout, status, raised>>
    /\ UNCHANGED <<kind, raise_on_error, skip_plugins, delete, retval>>
    /\ last' = NoCall
    /\ UNCHANGED <<input, invoked, verdicts, seen>>

\* Lines 85-87: a truthy result of post_receive becomes the alert.
NormalizeReceiveUnguarded(st, updated) == [st EXCEPT !.alert = updated, !.alert_was_updated = TRUE]
NormalizeReceive(st, updated) ==
    IF Truthy(updated) THEN [st EXCEPT !.alert = updated, !.alert_was_updated = TRUE] ELSE st

\* One iteration of the post-receive loop.
PostReceiveIgnoresSkip ==
    /\ pc = "post_receive"
    /\ i <= n
    /\ \E c \in Calls("post_receive") :
         LET h == Handle("post_receive", i, c)
             st == IF h.do = "result" THEN NormalizeReceive(State, h.ret) ELSE State
         IN /\ HookHistory("post_receive", c, h, st)
            /\ IF h.do = "raise"
               THEN /\ Raise(h.exc)
                    /\ UNCHANGED <<running, i>>
               ELSE /\ SetState(st)
                    /\ i' = i + 1
                    /\ UNCHANGED <<pc, raised>>
    /\ UNCHANGED <<kind, raise_on_error, n, skip_plugins, delete, retval, input, ops, verdicts>>
PostReceive ==
    /\ pc = "post_receive"
    /\ i <= n
    /\ ~skip_plugins
    /\ \E c \in Calls("post_receive") :
         LET h == Handle("post_receive", i, c)
             st == IF h.do = "result" THEN NormalizeReceive(State, h.ret) ELSE State
         IN /\ HookHistory("post_receive", c, h, st)
            /\ IF h.do = "raise"
               THEN /\ Raise(h.exc)
                    /\ UNCHANGED <<running, i>>
               ELSE /\ SetState(st)
                    /\ i' = i + 1
                    /\ UNCHANGED <<pc, raised>>
    /\ UNCHANGED <<kind, raise_on_error, n, skip_plugins, delete, retval, input, ops, verdicts>>

\* The code after the post-receive loop, reached at the end of the chain or
\* by its break on skip_plugins.
ReturnAlert ==
    /\ pc = "post_receive"
    /\ (i > n \/ skip_plugins)
    /\ ResyncAndReturn(TRUE)
    /\ UNCHANGED <<action, text, timeout, status, alert_was_updated>>
    /\ UNCHANGED <<kind, raise_on_error, n, i, skip_plugins, delete, retval>>
    /\ last' = NoCall
    /\ UNCHANGED <<input, invoked, last_produced, verdicts, seen>>

\* ----------------------------------------------------------- specification
Next ==
    \/ PreReceive
    \/ ResolveLifecycle
    \/ PostReceive
    \/ ReturnAlert
    \/ TakeAction
    \/ ReturnAction
    \/ TakeNote
    \/ ReturnNote
    \/ StatusChange
    \/ ReturnStatus
    \/ Delete
    \/ ReturnDelete

Spec == Init /\ [][Next]_vars

\* ------------------------------------------------------ words of the claims
HookStages == {"pre_receive", "post_receive", "take_action", "take_note", "status_change", "delete"}
LifecycleOps == {"deduplicate", "update", "create"}
ResyncOps == {"update_tags", "update_attributes"}
\* How many times the model operations of the set names were called.
Count(names) == Cardinality({j \in 1..Len(ops) : ops[j].op \in names})
\* The plugins whose hook of the stage was called.
InvokedIn(stage) == {e.plugin : e \in {x \in invoked : x.stage = stage}}
\* The step just taken called a hook, which raised a control signal.
SignalRaised == last.exc \in DomainExceptions
\* The step just taken called a hook of one of the five phases, which returned.
HookReturned == last.stage \in HookStages \ {"delete"} /\ last.exc = "none"
\* Nothing can follow: the invocation is over.
Over == pc \in {"returned", "raised"} /\ ~ENABLED Next

\* ---------------------------------------------------------------------- C1
\* C1: in every pipeline and under both policies, a control signal raised by
\* a hook is what the caller of the pipeline receives: the same exception,
\* not wrapped and not suppressed.
C1_SignalPropagatesUnchanged ==
    SignalRaised =>
        /\ pc = "raised"
        /\ raised = HookExc(last.exc, last.stage, last.plugin)
        /\ raised.origin = "raised"

\* A post-receive hook raises InvalidAction, which no clause of its try
\* statement names, under the lenient policy.
C1_Witness ==
    /\ last.stage = "post_receive"
    /\ last.exc = "InvalidAction"
    /\ ~raise_on_error
    /\ pc = "raised"

\* ---------------------------------------------------------------------- C2
\* C2 as stated: a control signal raised by plugin k ends the invocation with
\* that signal, no plugin after k is called, and the invocation has called
\* no resync and no lifecycle-resolution operation.
C2_NoLifecycleAtAll ==
    SignalRaised =>
        /\ raised = HookExc(last.exc, last.stage, last.plugin)
        /\ Over
        /\ \A k \in InvokedIn(last.stage) : k <= last.plugin
        /\ Count(ResyncOps) = 0
        /\ Count(LifecycleOps) = 0

\* C2, amended: a control signal raised by plugin k ends the invocation with
\* that signal, no plugin after k is called and no resync is called; no
\* lifecycle-resolution operation is called after the signal.  One raised
\* before lifecycle resolution (pre-receive, action, note, status, delete)
\* leaves none called; one raised by a post-receive hook comes after the one
\* lifecycle-resolution operation of the invocation has been called.
C2_SignalAborts ==
    SignalRaised =>
        /\ raised = HookExc(last.exc, last.stage, last.plugin)
        /\ Over
        /\ \A k \in InvokedIn(last.stage) : k <= last.plugin
        /\ Count(ResyncOps) = 0
        /\ Count(LifecycleOps) = (IF last.stage = "post_receive" THEN 1 ELSE 0)
        /\ last.stage /= "post_receive" => InvokedIn("post_receive") = {}

\* The second plugin of a chain raises a control signal after the first one
\* has mutated the alert.
C2_Witness ==
    /\ SignalRaised
    /\ last.plugin = 2
    /\ alert_was_updated
    /\ pc = "raised"

\* ---------------------------------------------------------------------- C3
\* The step just taken called a hook of the stage, and the call ended with a
\* generic fault: an exception that is neither a control signal nor, in the
\* stages that tolerate it, NotImplementedError.
Tolerated(stage, e) == e = "NotImplementedError" /\ stage \in {"take_action", "take_note", "delete"}
GenericFault(call) ==
    /\ call.exc \in HookExceptions \ DomainExceptions
    /\ ~Tolerated(call.stage, call.exc)
\* The next step of the pipeline calls the hook of plugin i.
CallsNext ==
    /\ pc \in HookStages
    /\ i <= n
    /\ pc \in {"pre_receive", "take_action", "status_change"} => IsAlert(alert) /\ ~alert.is_suppressed
    /\ pc = "post_receive" => ~skip_plugins
    /\ pc = "delete" => Truthy(delete)

\* C3: a generic fault of plugin k, under the lenient policy, leaves the
\* running state (alert, auxiliary fields, mutated flag, delete verdict) as
\* it was before the call and the pipeline goes on to plugin k+1, which is
\* called if there is one; under the strict policy the pipeline ends at once
\* with an error.
C3_FaultPolicy ==
    [][GenericFault(last') =>
         IF raise_on_error
         THEN /\ pc' = "raised"
              /\ raised'.type /= "none"
         ELSE /\ UNCHANGED <<running, delete, pc>>
              /\ i' = i + 1
              /\ i' <= n => CallsNext']_vars

\* ---------------------------------------------------------------------- C4
\* C4: with an alert that is suppressed on entry, the receive, action and
\* status pipelines call no hook, leave the mutated flag false, call no
\* resync and return the alert no plugin has touched: the one passed in, or,
\* in the receive pipeline, the one lifecycle resolution returned.
C4_SuppressedSkipsPlugins ==
    (kind \in {"receive", "action", "status"} /\ input.is_suppressed) =>
        /\ invoked = {}
        /\ ~alert_was_updated
        /\ Count(ResyncOps) = 0
        /\ pc = "returned" => alert = last_produced.alert /\ last_produced.plugin = 0
        /\ (pc = "returned" /\ kind /= "receive") => alert = input

\* ---------------------------------------------------------------------- C5
\* The receive pipeline has got past the pre-receive phase.
LifecycleAttempted ==
    /\ kind = "receive"
    /\ \/ pc \in {"post_receive", "returned"}
       \/ pc = "raised" /\ raised.stage \in {"lifecycle", "post_receive", "resync"}
Called(name) == \E j \in 1..Len(ops) : ops[j].op = name
Returned(name, r) == \E j \in 1..Len(ops) : ops[j].op = name /\ ops[j].ret = r
CalledWith(name, a) == \E j \in 1..Len(ops) : ops[j].op = name /\ ops[j].arg = a
\* The duplicate check or the correlation check failed: it raised, or the
\* running alert is no Alert and has no such method.
CheckFailed ==
    \/ ops = <<>>
    \/ \E j \in 1..Len(ops) : ops[j].op \in {"is_duplicate", "is_correlated"} /\ ops[j].ret.t = "raise"
\* The priority of the three operations.
LifecyclePriority ==
    /\ Returned("is_duplicate", Match) =>
         /\ CalledWith("deduplicate", Match)
         /\ ~Called("is_correlated") /\ ~Called("update") /\ ~Called("create")
    /\ (Returned("is_duplicate", NoneVal) /\ Returned("is_correlated", Match)) =>
         /\ CalledWith("update", Match)
         /\ ~Called("deduplicate") /\ ~Called("create")
    /\ (Returned("is_duplicate", NoneVal) /\ Returned("is_correlated", NoneVal)) =>
         /\ Count({"create"}) = 1
         /\ ~Called("deduplicate") /\ ~Called("update")
         /\ (pc = "returned" /\ invoked = {}) => ~alert_was_updated /\ Count(ResyncOps) = 0

\* C5 as stated: every receive invocation that gets past the pre-receive
\* phase calls exactly one of deduplicate, update and create, by priority.
C5_ExactlyOneAlways ==
    LifecycleAttempted => Count(LifecycleOps) = 1 /\ LifecyclePriority

\* C5, amended: every receive invocation that gets past the pre-receive phase
\* calls at most one of deduplicate, update and create, by priority, and
\* exactly one unless the duplicate check or the correlation check it made
\* failed with an exception (then none is called).  With no plugin called and
\* no match, create() is called once, the mutated flag is false and no resync
\* is called.
C5_OneByPriority ==
    LifecycleAttempted =>
        /\ Count(LifecycleOps) <= 1
        /\ Count(LifecycleOps) = 0 <=> CheckFailed
        /\ Count({"is_duplicate"}) = (IF ops = <<>> THEN 0 ELSE 1)
        /\ Count({"is_correlated"}) <= 1
        /\ LifecyclePriority

\* A receive invocation with plugins in both phases returns after update().
C5_Witness ==
    /\ kind = "receive"
    /\ pc = "returned"
    /\ Called("update")
    /\ InvokedIn("pre_receive") /= {}
    /\ InvokedIn("post_receive") /= {}

\* ---------------------------------------------------------------------- C6
\* The logical AND of the verdicts the delete hooks returned.
CombinedVerdict == \A j \in 1..Len(verdicts) : Truthy(verdicts[j].verdict)

\* C6: the running verdict of the delete pipeline is the AND of the verdicts
\* returned so far, alert.delete() is called if and only if that AND is true
\* after the chain, and one falsy verdict keeps alert.delete() from being
\* called whatever comes after it.
C6_DeleteIffAllAllow ==
    kind = "delete" =>
        /\ Truthy(delete) <=> CombinedVerdict
        /\ pc = "delete" => ~Called("delete")
        /\ pc = "returned" => (Count({"delete"}) = 1 <=> CombinedVerdict)
        /\ pc = "returned" => (Truthy(retval) => CombinedVerdict /\ Returned("delete", TrueVal))
        /\ ~CombinedVerdict => ~Called("delete")

\* The first of two plugins denies; the pipeline returns without deleting.
C6_Witness ==
    /\ kind = "delete"
    /\ pc = "returned"
    /\ n = 2
    /\ verdicts /= <<>>
    /\ verdicts[1] = [plugin |-> 1, verdict |-> FalseVal]
    /\ ~Called("delete")

\* ---------------------------------------------------------------------- C7
\* The delete loop is over without an exception of a plugin.
DeleteLoopDone == kind = "delete" /\ (pc = "returned" \/ (pc = "delete" /\ i > n))

\* C7: when the delete loop ends without an aborting error, the delete hook of every routed
\* plugin has been called.
C7_EveryHookCalled ==
    DeleteLoopDone => InvokedIn("delete") = 1..n

\* ---------------------------------------------------------------------- C8
\* The running state is the state p, but for the attributes that the resync
\* before the return may have stored.
StateIs(p) ==
    /\ action = p.action /\ text = p.text /\ timeout = p.timeout /\ status = p.status
    /\ IF pc = "returned" /\ alert_was_updated
       THEN IsAlert(p.alert) /\ alert.is_suppressed = p.alert.is_suppressed /\ alert.tags = p.alert.tags
       ELSE alert = p.alert
InPipeline == kind /= "delete" /\ pc /= "raised"
\* The state was last assigned from the result of the hook call just made.
FromLastCall == last_produced.stage = last.stage /\ last_produced.plugin = last.plugin
\* The running state holds what the result r of a hook of the stage carries.
Carries(stage, r) ==
    IF IsAlert(r) THEN alert = r
    ELSE IF ~IsTuple(r) THEN TRUE
    ELSE IF stage = "take_action" /\ r.len = 4 THEN alert = r.first /\ <<action, text, timeout>> = r.rest
    ELSE IF stage = "take_action" /\ r.len = 3 THEN alert = r.first /\ <<action, text>> = r.rest
    ELSE IF stage = "take_note" /\ r.len = 2 THEN alert = r.first /\ <<text>> = r.rest
    ELSE IF stage = "status_change" /\ r.len = 3 THEN alert = r.first /\ <<status, text>> = r.rest
    ELSE TRUE

\* C8 as stated: in the receive, action, note and status pipelines the state
\* a plugin is called with, and the state returned, is the one produced by
\* the last plugin that returned a non-empty result, or the input state.
C8_LastPluginOrInput ==
    InPipeline =>
        /\ StateIs(last_produced)
        /\ last_produced.stage /= "lifecycle"
        /\ (HookReturned /\ last.ret /= NoneVal) => FromLastCall /\ Carries(last.stage, last.ret)

\* C8, amended: in the action, note and status pipelines, and within each
\* phase of the receive pipeline, a plugin is called with, and the pipeline
\* returns, the state assigned from the result of the last plugin whose result
\* the pipeline assigned (a truthy result in the receive and status pipelines;
\* a bare alert or a tuple of 4 or 3 in the action pipeline; a bare alert or a
\* tuple of 2 in the note pipeline), or the state the phase started with; a
\* non-empty result of any other shape leaves the state as it was.  In the
\* receive pipeline lifecycle resolution stands between the phases: it is
\* called on the final alert of the pre-receive phase and the alert it returns
\* is the state the post-receive phase starts with.  The alert returned may
\* differ in its attributes, which the resync stores.
C8_LastWriterWins ==
    InPipeline =>
        /\ StateIs(last_produced)
        /\ last_produced.stage = "lifecycle" => kind = "receive" /\ pc \in {"post_receive", "returned"}
        /\ (pc \in {"post_receive", "returned"} /\ kind = "receive" /\ last_produced.stage /= "post_receive") => ~alert_was_updated
        /\ last_produced.stage \in {"input", "lifecycle"} <=> last_produced.plugin = 0
        /\ HookReturned =>
             /\ Assigned(last.stage, last.ret) <=> FromLastCall
             /\ Assigned(last.stage, last.ret) => Carries(last.stage, last.ret)

\* The second of two status plugins returns nothing: the pipeline returns the
\* state of the first.
C8_Witness ==
    /\ kind = "status"
    /\ pc = "returned"
    /\ Cardinality(invoked) = 2
    /\ last_produced.plugin = 1
    /\ status /= "v1"

\* ---------------------------------------------------------------------- C9

\* C9 as stated: any hook result other than None sets the mutated flag, the
\* flag stays set, and on normal return it is true if and only if some hook
\* returned a result other than None.
C9_AnyResultSetsFlag ==
    [][/\ (HookReturned' /\ last'.ret /= NoneVal) => alert_was_updated'
       /\ alert_was_updated => alert_was_updated'
       /\ (pc' = "returned" /\ kind /= "delete") => (alert_was_updated' <=> seen'.any)]_vars

\* C9, amended: the pre-receive phase has no mutated flag (its results go to
\* lifecycle resolution).  In the other phases the flag is set by: any truthy
\* result (post-receive, status), a bare alert or any tuple (action), a bare
\* alert or a 2-tuple (note); no other result sets it.  Once set it stays set
\* until the pipeline returns, so on normal return it is true if and only if
\* some post-receive, action, note or status hook returned such a result.
C9_AcceptedResultSetsFlag ==
    [][/\ HookReturned' => (alert_was_updated' <=> (alert_was_updated \/ Accepted(last'.stage, last'.ret)))
       /\ ~HookReturned' => (alert_was_updated' <=> alert_was_updated)
       /\ (pc' = "returned" /\ kind /= "delete") => (alert_was_updated' <=> seen'.accepted)]_vars

\* A later action plugin returns nothing and the flag an earlier one set stays.
C9_Witness ==
    /\ pc = "take_action"
    /\ last.plugin = 2
    /\ last.exc = "none"
    /\ last.ret = NoneVal
    /\ alert_was_updated

\* --------------------------------------------------------------------- C10
\* C10: on normal return from the receive, action, note and status pipelines,
\* with the mutated flag set update_tags has been called once with the final
\* alert's tags and update_attributes once, after the last plugin, and the
\* alert's attributes are the value update_attributes returned; with the flag
\* not set neither has been called and the alert is as the last plugin left it.
C10_ResyncOnReturn ==
    kind /= "delete" =>
        /\ pc \notin {"returned", "raised"} => Count(ResyncOps) = 0
        /\ (pc = "returned" /\ ~alert_was_updated) => Count(ResyncOps) = 0 /\ alert = last_produced.alert
        /\ (pc = "returned" /\ alert_was_updated) =>
             /\ Count({"update_tags"}) = 1
             /\ Count({"update_attributes"}) = 1
             /\ ops[Len(ops) - 1].op = "update_tags"
             /\ ops[Len(ops) - 1].arg = TagsVal(alert.tags)
             /\ ops[Len(ops)].op = "update_attributes"
             /\ ops[Len(ops)].arg = AttrVal(last_produced.alert.attributes)
             /\ alert.attributes = ops[Len(ops)].ret.v

\* --------------------------------------------------------------------- C11
\* The step just taken called a take_action hook, which returned.
ActionReturned == last.stage = "take_action" /\ last.exc = "none"

\* C11 as stated: whatever a take_action hook returns, no return value leaves
\* (alert, action, text, timeout) unchanged, a bare alert replaces only the
\* alert, a 4-tuple replaces all four fields and a shorter tuple replaces the
\* prefix of the fields it provides and leaves the others as they were.
C11_PrefixOfAnyArity ==
    [][ActionReturned' =>
         LET r == last'.ret
         IN /\ UNCHANGED status
            /\ IF IsAlert(r) THEN alert' = r /\ UNCHANGED <<action, text, timeout>>
               ELSE IF IsTuple(r) /\ r.len >= 1
               THEN /\ alert' = r.first
                    /\ action' = (IF r.len >= 2 THEN r.rest[1] ELSE action)
                    /\ text' = (IF r.len >= 3 THEN r.rest[2] ELSE text)
                    /\ timeout' = (IF r.len >= 4 THEN r.rest[3] ELSE timeout)
               ELSE UNCHANGED <<alert, action, text, timeout>>]_vars

\* C11, amended: no return value leaves (alert, action, text, timeout)
\* unchanged, a bare alert replaces only the alert, a 4-tuple replaces all
\* four fields, a 3-tuple replaces (alert, action, text) and leaves the
\* timeout as it was; a tuple of any other length, like any other value,
\* replaces no field.
C11_ActionNormalization ==
    [][ActionReturned' =>
         LET r == last'.ret
         IN /\ UNCHANGED status
            /\ IF IsAlert(r) THEN alert' = r /\ UNCHANGED <<action, text, timeout>>
               ELSE IF IsTuple(r) /\ r.len = 4
               THEN alert' = r.first /\ <<action', text', timeout'>> = r.rest
               ELSE IF IsTuple(r) /\ r.len = 3
               THEN alert' = r.first /\ <<action', text'>> = r.rest /\ UNCHANGED timeout
               ELSE UNCHANGED <<alert, action, text, timeout>>]_vars

\* The second action plugin returns a 3-tuple after the first has set a timeout.
C11_Witness ==
    /\ ActionReturned
    /\ last.plugin = 2
    /\ IsTuple(last.ret)
    /\ last.ret.len = 3
    /\ timeout /= "None"
    /\ <<action, text>> = last.ret.rest

\* --------------------------------------------------------------------- C12
\* C12: in the note, action and delete pipelines a hook that raises
\* NotImplementedError is skipped under both policies: nothing is raised, the
\* running state, the mutated flag and the verdict stay as they were and the
\* next plugin is called; the note pipeline returns the text it was given if
\* no plugin's result replaced it.
C12_UnsupportedSkipped ==
    [][/\ Tolerated(last'.stage, last'.exc) =>
            /\ UNCHANGED <<running, delete, pc, raised>>
            /\ i' = i + 1
            /\ i' <= n => CallsNext'
       /\ (kind = "note" /\ pc' = "returned" /\ ~seen'.accepted) => text' = "v1"]_vars

\* Under the strict policy the first of two note plugins has no take_note
\* hook; the loop stands before the second.
C12_Witness ==
    /\ last.stage = "take_note"
    /\ last.exc = "NotImplementedError"
    /\ raise_on_error
    /\ pc = "take_note"
    /\ i = 2
    /\ n = 2
    /\ raised = NoExc

\* --------------------------------------------------------------------- C13
\* C13: the note pipeline calls the take_note hook of every routed plugin, in
\* order, whether or not the alert is suppressed on entry or after a plugin:
\* while no plugin has raised an aborting error the hooks called are those of
\* the plugins passed, and on return those of the whole chain.
C13_NoteIgnoresSuppressed ==
    (kind = "note" /\ pc /= "raised") =>
        /\ InvokedIn("take_note") = 1..(i - 1)
        /\ pc = "returned" => InvokedIn("take_note") = 1..n

\* A note on an alert suppressed at entry passes through two plugins, the
\* first of which returns a suppressed alert too.
C13_Witness ==
    /\ kind = "note"
    /\ pc = "returned"
    /\ input.is_suppressed
    /\ alert.is_suppressed
    /\ alert_was_updated
    /\ InvokedIn("take_note") = {1, 2}

\* --------------------------------------------------------------------- C14
\* The step just taken called a pre_receive hook, which returned an empty value.
EmptyAlertReturned ==
    /\ last.stage = "pre_receive"
    /\ last.exc = "none"
    /\ last.ret \in {NoneVal, FalseVal, EmptyTuple}

\* C14: when a pre_receive hook returns an empty (falsy) alert the pipeline
\* ends at once, under both policies, with an error that names the plugin (a
\* SyntaxError the pipeline builds); no later plugin is called and no
\* lifecycle-resolution operation is made.
C14_EmptyAlertIsFatal ==
    EmptyAlertReturned =>
        /\ pc = "raised"
        /\ raised.type = "SyntaxError"
        /\ raised.origin = "pipeline"
        /\ raised.stage = "pre_receive"
        /\ raised.plugin = last.plugin
        /\ InvokedIn("pre_receive") = 1..last.plugin
        /\ InvokedIn("post_receive") = {}
        /\ ops = <<>>
        /\ ~ENABLED Next

\* Under the lenient policy the first of two pre-receive plugins returns False.
C14_Witness ==
    /\ EmptyAlertReturned
    /\ last.ret = FalseVal
    /\ last.plugin = 1
    /\ n = 2
    /\ ~raise_on_error
    /\ pc = "raised"

\* --------------------------------------------------------------------- C15
\* The model queries and operations of lifecycle resolution.
LifecycleCalls == LifecycleOps \cup {"is_duplicate", "is_correlated"}
\* The exceptions that lifecycle calls have raised.
LifecycleFailures == {ops[j].ret.v : j \in {h \in 1..Len(ops) : ops[h].op \in LifecycleCalls /\ ops[h].ret.t = "raise"}}

\* C15: an exception raised by is_duplicate, deduplicate, is_correlated,
\* update or create, a control signal included, reaches the caller wrapped
\* into an ApiError under both policies; it is never suppressed, and no
\* post_receive hook and no resync follows.
C15_LifecycleFaultWrapped ==
    LifecycleFailures /= {} =>
        /\ pc = "raised"
        /\ raised.type = "ApiError"
        /\ raised.origin = "pipeline"
        /\ raised.stage = "lifecycle"
        /\ LifecycleFailures = {raised.cause}
        /\ ops[Len(ops)].ret = ModelExc(raised.cause)
        /\ InvokedIn("post_receive") = {}
        /\ Count(ResyncOps) = 0
        /\ ~ENABLED Next

\* Under the lenient policy update() raises RejectException after a
\* pre-receive plugin was called.
C15_Witness ==
    /\ LifecycleFailures = {"RejectException"}
    /\ Called("update")
    /\ ~raise_on_error
    /\ InvokedIn("pre_receive") /= {}
    /\ pc = "raised"

\* --------------------------------------------------------------------- C16
\* C16: under the strict policy a generic fault of a hook, in whichever stage,
\* reaches the caller as a processing error of one kind (ApiError, the kind
\* of the other processing errors), built by the pipeline with the name of
\* the plugin and of the stage.
C16_UniformFaultError ==
    (raise_on_error /\ GenericFault(last)) =>
        /\ pc = "raised"
        /\ raised.type = "ApiError"
        /\ raised.origin = "pipeline"
        /\ raised.plugin = last.plugin
        /\ raised.stage = last.stage
        /\ raised.cause = last.exc

\* --------------------------------------------------------------------- C17
\* C17: in the stages with a legacy-signature fallback the call without
\* config is made only after a call that the signature rejected, so that the
\* body of a plugin's hook runs at most once in a pass of the pipeline.
C17_BodyAtMostOnce ==
    last.stage \in {"pre_receive", "post_receive", "status_change"} =>
        last.body_runs <= 1

\* --------------------------------------------------------------------- C18
\* The pre-receive loop stands at the top of an iteration with a suppressed alert.
SuppressedAtTop == pc = "pre_receive" /\ i <= n /\ IsAlert(alert) /\ alert.is_suppressed

\* C18: in the receive pipeline, when the alert is suppressed at the top of a
\* pre-receive iteration the loop is left without calling the plugin and no
\* post_receive hook is called afterwards; otherwise the post-receive phase
\* starts, after lifecycle resolution, at the first plugin of a new routing
\* decision and calls every plugin of it.
C18_SuppressedSkipsRest ==
    [][kind = "receive" =>
         /\ SuppressedAtTop => skip_plugins' /\ pc' = "lifecycle" /\ UNCHANGED invoked
         /\ (pc = "pre_receive" /\ ~SuppressedAtTop) => ~skip_plugins'
         /\ pc /= "pre_receive" => UNCHANGED skip_plugins
         /\ skip_plugins' => InvokedIn("post_receive")' = {} /\ pc' /= "pre_receive"
         /\ (pc = "post_receive" /\ skip_plugins) => pc' = "returned"
         /\ (pc = "post_receive" /\ ~skip_plugins /\ i <= n) =>
                invoked' = invoked \cup {[stage |-> "post_receive", plugin |-> i]}
         /\ (pc /= "post_receive" /\ pc' = "post_receive") =>
                i' = 1 /\ Count(LifecycleOps)' = 1 /\ UNCHANGED invoked
         /\ (pc' = "returned" /\ ~skip_plugins') => InvokedIn("post_receive")' = 1..n']_vars

\* The first pre-receive plugin returns a suppressed alert; the second is not
\* called, and neither are the two plugins routed for the post-receive phase.
C18_Witness ==
    /\ kind = "receive"
    /\ pc = "returned"
    /\ skip_plugins
    /\ n = 2
    /\ invoked = {[stage |-> "pre_receive", plugin |-> 1]}
    /\ ~input.is_suppressed

\* --------------------------------------------------------------------- C19
\* The step just taken called a status_change hook, which returned.
StatusReturned == last.stage = "status_change" /\ last.exc = "none"

\* C19: in the status pipeline a truthy result that is not a 3-tuple (a bare
\* alert, a tuple of another length) becomes the running alert as a whole,
\* status and text stay as they were and the mutated flag is set; a 3-tuple
\* replaces alert, status and text; a falsy result changes nothing.
C19_UnpackableReplacesAlert ==
    [][StatusReturned' =>
         LET r == last'.ret
         IN /\ UNCHANGED <<action, timeout>>
            /\ IF ~(IsAlert(r) \/ (IsTuple(r) /\ r.len >= 1)) THEN UNCHANGED running
               ELSE IF IsTuple(r) /\ r.len = 3
               THEN alert' = r.first /\ <<status', text'>> = r.rest /\ alert_was_updated'
               ELSE alert' = r /\ UNCHANGED <<status, text>> /\ alert_was_updated']_vars

\* A status plugin returns a 2-tuple, which is now the running alert.
C19_Witness ==
    /\ StatusReturned
    /\ IsTuple(last.ret)
    /\ last.ret.len = 2
    /\ alert = last.ret
    /\ alert_was_updated
    /\ <<status, text>> = <<"v1", "v1">>

\* --------------------------------------------------------------------- C20
\* The action or status loop holds a suppressed alert that a plugin returned.
SuppressedByPlugin ==
    /\ pc \in {"take_action", "status_change"}
    /\ IsAlert(alert)
    /\ alert.is_suppressed
    /\ alert_was_updated

\* C20: in the action and status pipelines, once the result of plugin k has
\* made the running alert suppressed, no later plugin is called: the step
\* that follows is the code after the loop, which calls update_tags with the
\* tags of that suppressed alert and then update_attributes, and the pipeline
\* returns with the state plugin k left (no error is raised but one that
\* these two model operations raise).
C20_SuppressedByPluginStops ==
    [][(kind = "action" \/ kind = "status") =>
         /\ SuppressedByPlugin =>
                /\ UNCHANGED <<invoked, action, text, timeout, status, alert_was_updated, last_produced>>
                /\ ops'[1] = Op("update_tags", TagsVal(alert.tags), ops'[1].ret)
                /\ pc' = "returned" =>
                       (/\ Len(ops') = 2
                        /\ ops'[2].op = "update_attributes"
                        /\ ops'[2].arg = AttrVal(alert.attributes)
                        /\ alert' = [alert EXCEPT !.attributes = ops'[2].ret.v]
                        /\ raised' = NoExc)
                /\ pc' /= "returned" =>
                       (/\ pc' = "raised"
                        /\ raised'.origin = "raised"
                        /\ ops'[Len(ops')].ret = ModelExc(raised'.type))
         /\ (HookReturned' /\ IsAlert(alert') /\ alert'.is_suppressed) =>
                (/\ SuppressedByPlugin'
                 /\ FromLastCall'
                 /\ invoked' = {[stage |-> pc, plugin |-> k] : k \in 1..last'.plugin})]_vars

\* The first of two status plugins returned a suppressed alert; the pipeline
\* has returned it after the resync, the second plugin not called.
C20_Witness ==
    /\ kind = "status"
    /\ pc = "returned"
    /\ n = 2
    /\ ~input.is_suppressed
    /\ alert.is_suppressed
    /\ invoked = {[stage |-> "status_change", plugin |-> 1]}
    /\ Count(ResyncOps) = 2

====
